---- MODULE Spec2Model ----
(***************************************************************************)
(* Tempo practice calculator: the look-ahead metronome engine (class       *)
(* Metronome of tempo-calculator.js, same logic as core/PrecisionTimer.ts) *)
(* and the tempo-ramp time calculator (calculateTempoPracticeTime).        *)
(*                                                                         *)
(* Time is counted in ticks of the audio clock, TicksPerSecond ticks to    *)
(* the second, chosen so that every note interval (60/tempo)/subdivision   *)
(* used here is a whole number of ticks: the arithmetic is exact.          *)
(* Every handler of the single-threaded host event loop (a click handler   *)
(* calling start/stop/a setter, a promise continuation, a timer callback)  *)
(* runs to completion and is one action.                                   *)
(***************************************************************************)
EXTENDS Integers, Sequences, FiniteSets, TLC

VARIABLES
    \* ---- fields of Metronome (tempo-calculator.js:21-47)
    audioContext,        \* "none" until created, then audioContext.state:
                         \* "suspended" or "running"
    isPlaying,
    currentBeatInBar,
    currentSubdivision,
    beatsPerBar,
    subdivision,
    tempo,
    soundType,           \* "click", "wood" or "beep"
    nextNoteTime,
    timerID,             \* id returned by the last setTimeout, 0 for null
    progressionEnabled,
    progressionStep,
    progressionBars,
    targetTempo,
    barCount,
    \* ---- host environment
    currentTime,         \* audioContext.currentTime
    timers,              \* ids of the pending housekeeping timers
    unlocks,             \* start() calls waiting on a pending resume() promise
    visuals,             \* visual callbacks queued by scheduleNote, oldest first
    \* ---- what the last handler did (observation only)
    lastOp,              \* name of the handler that ran last ("startNow": a start()
                         \* whose _startPlayback ran before the task ended)
    issued,              \* notes handed to scheduleNote by the last handler
    tempoCalls,          \* arguments of onTempoChange calls of the last handler
    lastVisual,          \* flags of the visual trigger that ran last
    prevNoteTime,        \* timestamp of the newest note issued before the last handler
    \* ---- history since the last _startPlayback / start / stop
    sessStart,           \* audio clock at the last _startPlayback, -1 before
    sessCount,           \* notes issued since the last _startPlayback
    sessStable,          \* tempo and subdivision unchanged since then
    sessFirst,           \* beat/subdivision of the first note since then
    barsDone,            \* bars completed since the last _startPlayback
    stopped,             \* stop() has returned and start() was not called since
    restartFirst,        \* beat/subdivision of the first note issued since the last
                         \* start() that directly followed a stop() of the playing
                         \* engine; <<-1, -1>> while none was issued, <<-3, -3>>
                         \* between that stop() and start(), <<-2, -2>> otherwise
    nCalls,              \* start()/stop() calls the user interface may still make
    nSets,               \* setter calls the user interface may still make
    \* ---- calculator
    params,              \* PracticeParams handed to calculate
    outcome,             \* what calculate produced for them
    \* ---- tap tempo
    tapTimes,            \* Date.now() of the taps kept, oldest first
    dateNow,             \* Date.now() at the last tap, in ms
    tapBuild             \* the click handler installed on the tap button: "js"
                         \* (tempo-calculator.js) or "ts" (MetronomeUI)

metroVars == <<audioContext, isPlaying, currentBeatInBar, currentSubdivision,
               beatsPerBar, subdivision, tempo, soundType, nextNoteTime, timerID,
               progressionEnabled, progressionStep, progressionBars,
               targetTempo, barCount>>
envVars   == <<currentTime, timers, unlocks, visuals>>
obsVars   == <<lastOp, issued, tempoCalls, lastVisual, prevNoteTime>>
histVars  == <<sessStart, sessCount, sessStable, sessFirst, barsDone, stopped,
               restartFirst, nCalls, nSets>>
calcVars  == <<params, outcome>>
tapVars   == <<tapTimes, dateNow, tapBuild>>
vars      == <<metroVars, envVars, obsVars, histVars, calcVars, tapVars>>

----------------------------------------------------------------------------
(* Units and program constants                                             *)

\* 491400 = 2^3 * 3^3 * 5^2 * 7 * 13: 60*TicksPerSecond is divisible by
\* tempo*subdivision for tempo in {120,125,130,135,140} and subdivision 1..4
TicksPerSecond == 8 * 27 * 25 * 7 * 13

ScheduleAheadTime == TicksPerSecond \div 10      \* this.scheduleAheadTime = 0.1
StartDelay        == TicksPerSecond \div 10      \* currentTime + 0.1 in _startPlayback
MinBpm == 30
MaxBpm == 250

Min(x, y) == IF x < y THEN x ELSE y
Max(x, y) == IF x > y THEN x ELSE y

\* osc.stop(time + ...) of the voice that the switch of scheduleNote selects
\* (playClickSound also for an unknown type): 0.03, 0.05 and 0.1 s
oscStopAfter(voice) ==
    IF voice = "wood" THEN (5 * TicksPerSecond) \div 100
    ELSE IF voice = "beep" THEN TicksPerSecond \div 10
    ELSE (3 * TicksPerSecond) \div 100

\* secondsPerNote of nextNote: (60.0 / tempo) / subdivision
SecondsPerNote(t, sd) == (60 * TicksPerSecond) \div (t * sd)

----------------------------------------------------------------------------
(* The Metronome object and its host as a record, the methods as operators *)
(* on it.  The fields issued, tempoCalls, sess*, barsDone, restartFirst    *)
(* only record what happened; no method reads them.                        *)

Self == [isPlaying |-> isPlaying, tempo |-> tempo, subdivision |-> subdivision,
         beatsPerBar |-> beatsPerBar, soundType |-> soundType,
         currentBeatInBar |-> currentBeatInBar,
         currentSubdivision |-> currentSubdivision,
         nextNoteTime |-> nextNoteTime, timerID |-> timerID,
         progressionEnabled |-> progressionEnabled,
         progressionStep |-> progressionStep,
         progressionBars |-> progressionBars,
         targetTempo |-> targetTempo, barCount |-> barCount,
         timers |-> timers, unlocks |-> unlocks, visuals |-> visuals,
         issued |-> <<>>, tempoCalls |-> <<>>,
         sessStart |-> sessStart, sessCount |-> sessCount,
         sessStable |-> sessStable, sessFirst |-> sessFirst,
         barsDone |-> barsDone, restartFirst |-> restartFirst]

\* updateTempo of setupMetronome: clamp into 30..250, then metronome.setTempo
updateTempo(m, bpm) ==
    LET newBpm == Min(Max(bpm, MinBpm), MaxBpm) IN
    [m EXCEPT !.tempo = newBpm, !.sessStable = (@ /\ newBpm = m.tempo)]

\* metronome.onTempoChange = (newTempo) => updateTempo(newTempo); the call is logged
onTempoChange(m, newTempo) ==
    updateTempo([m EXCEPT !.tempoCalls = Append(@, newTempo)], newTempo)

\* progress as it would be if the target tempo were ignored
progress_noTarget(m) ==
    IF m.progressionEnabled
    THEN LET bc == m.barCount + 1 IN
         IF bc >= m.progressionBars
         THEN LET newTempo == m.tempo + m.progressionStep IN
              onTempoChange([m EXCEPT !.barCount = 0, !.tempo = newTempo,
                                      !.sessStable = FALSE], newTempo)
         ELSE [m EXCEPT !.barCount = bc]
    ELSE m

\* progress as it would be if the callback were invoked at every counted bar
progress_alwaysNotify(m) ==
    IF m.progressionEnabled
    THEN LET bc == m.barCount + 1 IN
         IF bc >= m.progressionBars /\ m.tempo < m.targetTempo
         THEN LET newTempo == Min(m.tempo + m.progressionStep, m.targetTempo) IN
              onTempoChange([m EXCEPT !.barCount = 0, !.tempo = newTempo,
                                      !.sessStable = FALSE], newTempo)
         ELSE onTempoChange([m EXCEPT !.barCount = bc], m.tempo)
    ELSE m

\* the progression block of nextNote, run when a bar has just completed
progress(m) ==
    IF m.progressionEnabled
    THEN LET bc == m.barCount + 1 IN
         IF bc >= m.progressionBars /\ m.tempo < m.targetTempo
         THEN LET newTempo == Min(m.tempo + m.progressionStep, m.targetTempo) IN
              onTempoChange([m EXCEPT !.barCount = 0, !.tempo = newTempo,
                                      !.sessStable = FALSE], newTempo)
         ELSE [m EXCEPT !.barCount = bc]
    ELSE m

\* nextNote as it would be if the subdivision counter wrapped one note late
nextNote_lateWrap(m) ==
    LET m1 == [m EXCEPT !.nextNoteTime = @ + SecondsPerNote(m.tempo, m.subdivision)]
        cs == m.currentSubdivision + 1
        cb == m.currentBeatInBar + 1
    IN  IF cs > m.subdivision
        THEN IF cb >= m.beatsPerBar
             THEN progress([m1 EXCEPT !.currentSubdivision = 0,
                                      !.currentBeatInBar = 0,
                                      !.barsDone = @ + 1])
             ELSE [m1 EXCEPT !.currentSubdivision = 0, !.currentBeatInBar = cb]
        ELSE [m1 EXCEPT !.currentSubdivision = cs]

\* nextNote as it would be if the interval ignored the subdivision
nextNote_perBeat(m) ==
    LET m1 == [m EXCEPT !.nextNoteTime = @ + SecondsPerNote(m.tempo, 1)]
        cs == m.currentSubdivision + 1
        cb == m.currentBeatInBar + 1
    IN  IF cs >= m.subdivision
        THEN IF cb >= m.beatsPerBar
             THEN progress([m1 EXCEPT !.currentSubdivision = 0,
                                      !.currentBeatInBar = 0,
                                      !.barsDone = @ + 1])
             ELSE [m1 EXCEPT !.currentSubdivision = 0, !.currentBeatInBar = cb]
        ELSE [m1 EXCEPT !.currentSubdivision = cs]

nextNote(m) ==
    LET m1 == [m EXCEPT !.nextNoteTime = @ + SecondsPerNote(m.tempo, m.subdivision)]
        cs == m.currentSubdivision + 1
        cb == m.currentBeatInBar + 1
    IN  IF cs >= m.subdivision
        THEN IF cb >= m.beatsPerBar
             THEN progress([m1 EXCEPT !.currentSubdivision = 0,
                                      !.currentBeatInBar = 0,
                                      !.barsDone = @ + 1])
             ELSE [m1 EXCEPT !.currentSubdivision = 0, !.currentBeatInBar = cb]
        ELSE [m1 EXCEPT !.currentSubdivision = cs]

\* scheduleNote as it would be if isAccent did not test beatsPerBar > 0
scheduleNote_noBarTest(m, beatNumber, subdivisionNumber, time) ==
    LET isMainBeat == subdivisionNumber = 0
        isAccent   == beatNumber = 0 /\ isMainBeat
    IN  [m EXCEPT
           !.visuals = Append(@, [beat |-> beatNumber, isMain |-> isMainBeat]),
           !.issued  = Append(@, [beat |-> beatNumber, sub |-> subdivisionNumber,
                                  time |-> time, isMain |-> isMainBeat,
                                  oscStop |-> time + oscStopAfter(m.soundType),
                                  isAccent |-> isAccent, tempo |-> m.tempo,
                                  subdivision |-> m.subdivision,
                                  beatsPerBar |-> m.beatsPerBar]),
           !.sessCount = @ + 1,
           !.sessFirst = IF m.sessCount = 0
                         THEN <<beatNumber, subdivisionNumber>> ELSE @,
           !.restartFirst = IF @ = <<-1, -1>>
                            THEN <<beatNumber, subdivisionNumber>> ELSE @]

\* scheduleNote: queues the visual callback (it carries beatNumber and
\* isMainBeat) and hands the note to the play*Sound voice.  The record of the
\* note keeps the arguments and the flags given to the voice, and the tempo,
\* subdivision and beatsPerBar in force at the call.
scheduleNote(m, beatNumber, subdivisionNumber, time) ==
    LET isMainBeat == subdivisionNumber = 0
        isAccent   == beatNumber = 0 /\ m.beatsPerBar > 0 /\ isMainBeat
    IN  [m EXCEPT
           !.visuals = Append(@, [beat |-> beatNumber, isMain |-> isMainBeat]),
           !.issued  = Append(@, [beat |-> beatNumber, sub |-> subdivisionNumber,
                                  time |-> time, isMain |-> isMainBeat,
                                  oscStop |-> time + oscStopAfter(m.soundType),
                                  isAccent |-> isAccent, tempo |-> m.tempo,
                                  subdivision |-> m.subdivision,
                                  beatsPerBar |-> m.beatsPerBar]),
           !.sessCount = @ + 1,
           !.sessFirst = IF m.sessCount = 0
                         THEN <<beatNumber, subdivisionNumber>> ELSE @,
           !.restartFirst = IF @ = <<-1, -1>>
                            THEN <<beatNumber, subdivisionNumber>> ELSE @]

\* the loop as it would be with an if in place of the while
schedulerLoop_once(m, now) ==
    IF m.nextNoteTime < now + ScheduleAheadTime
    THEN nextNote(scheduleNote(m, m.currentBeatInBar, m.currentSubdivision,
                               m.nextNoteTime))
    ELSE m

\* the while loop of scheduler()
RECURSIVE schedulerLoop(_, _)
schedulerLoop(m, now) ==
    IF m.nextNoteTime < now + ScheduleAheadTime
    THEN schedulerLoop(
            nextNote(scheduleNote(m, m.currentBeatInBar, m.currentSubdivision,
                                  m.nextNoteTime)), now)
    ELSE m

\* setTimeout: the host hands out an id that no pending timer has
newTimer(pending) ==
    CHOOSE i \in 1..(Cardinality(pending) + 1) :
        i \notin pending /\ \A j \in 1..(i - 1) : j \in pending

\* scheduler(): the loop, then this.timerID = setTimeout(() => this.scheduler(), lookahead)
runScheduler(m, now) ==
    LET m2 == schedulerLoop(m, now) IN
    [m2 EXCEPT !.timerID = newTimer(m2.timers),
               !.timers  = @ \cup {newTimer(m2.timers)}]

\* scheduleNote when the play*Sound call of its switch throws: the visual
\* callback has been requested, no tone is made, the exception leaves the method
scheduleNoteThrows(m, beatNumber, subdivisionNumber, time) ==
    [m EXCEPT !.visuals = Append(@, [beat |-> beatNumber,
                                     isMain |-> subdivisionNumber = 0])]

\* scheduler() when scheduleNote throws at the (k+1)-th note of the loop: the
\* k notes before it are issued and advanced over, then the exception leaves
\* the loop and the method, before nextNote() and before setTimeout
RECURSIVE schedulerThrowsAt(_, _, _)
schedulerThrowsAt(m, now, k) ==
    IF k = 0
    THEN scheduleNoteThrows(m, m.currentBeatInBar, m.currentSubdivision,
                            m.nextNoteTime)
    ELSE schedulerThrowsAt(
            nextNote(scheduleNote(m, m.currentBeatInBar, m.currentSubdivision,
                                  m.nextNoteTime)), now, k - 1)

\* the number of notes the while loop of scheduler() finds due
dueNotes(m, now) == Len(schedulerLoop([m EXCEPT !.issued = <<>>], now).issued)

\* _startPlayback as it would be without the reset of the counters
startPlayback_noReset(m, now) ==
    runScheduler([m EXCEPT !.isPlaying = TRUE,
                           !.nextNoteTime = now + StartDelay,
                           !.sessStart = now, !.sessCount = 0,
                           !.sessFirst = <<-1, -1>>, !.sessStable = TRUE,
                           !.barsDone = 0],
                 now)

\* _startPlayback(); the audio context exists whenever it is called
startPlayback(m, now) ==
    runScheduler([m EXCEPT !.isPlaying = TRUE,
                           !.currentBeatInBar = 0,
                           !.currentSubdivision = 0,
                           !.nextNoteTime = now + StartDelay,
                           !.sessStart = now, !.sessCount = 0,
                           !.sessFirst = <<-1, -1>>, !.sessStable = TRUE,
                           !.barsDone = 0],
                 now)

\* the continuations of k resume() promises, run one after the other
RECURSIVE startPlaybacks(_, _, _)
startPlaybacks(m, now, k) ==
    IF k = 0 THEN m ELSE startPlaybacks(startPlayback(m, now), now, k - 1)

\* start() as it would be without the isPlaying test
startCall_noGuard(m, state, now) ==
    IF state = "suspended" THEN [m EXCEPT !.unlocks = @ + 1]
    ELSE startPlayback(m, now)

\* start() on a context that is, or has just been created, in the given
\* state: returns at once while isPlaying; otherwise chains _startPlayback on
\* unlockAudio(), which is resume() on a suspended context (still pending
\* when start() returns) and Promise.resolve() on a running one (its
\* continuation runs before the task ends)
startCall(m, state, now) ==
    IF m.isPlaying THEN m
    ELSE IF state = "suspended" THEN [m EXCEPT !.unlocks = @ + 1]
    ELSE startPlayback(m, now)

\* stop(): isPlaying = false; clearTimeout(this.timerID)
stopCall(m) == [m EXCEPT !.isPlaying = FALSE, !.timers = @ \ {m.timerID}]

----------------------------------------------------------------------------
(* Bounds of the model and the inputs the handlers are tried with          *)

MaxTimeTenths == 21          \* the audio clock runs up to this many tenths of a second
MaxCalls      == 4           \* start()/stop() calls made by the user interface
MaxSetCalls   == 1           \* start()/stop() calls made when setters are used too
MaxSets       == 1           \* setter calls made by the user interface
MaxUnlocks    == 2           \* start() calls waiting on resume() at the same time

MaxTempoInput == 4           \* largest tempo of a calculator input
MaxStepInput  == 2           \* largest step of a calculator input
MaxCountInput == 2           \* largest beat, repetition or set count of an input
MaxDecTenths  == 10          \* largest tempo of a decimal input, in tenths
MaxDecStep    == 3           \* largest step of a decimal input, in tenths
MaxProgTenths == 250         \* the clock of the progression scenario, in tenths of a second
MaxBeatCalls  == 2           \* start()/stop() calls made in the beat-advancement scenario
MaxTaps       == 5           \* clicks made on the tap button
MaxFailCalls  == 2           \* start()/stop() calls made when the audio backend can fail
MaxProgCalls  == 1           \* start() calls made in the progression scenario
MaxProgSets   == 2           \* setter calls made while the progression runs
MaxProgSetTenths == 45       \* the clock when setters are used too, in tenths of a second

MaxTime     == MaxTimeTenths * (TicksPerSecond \div 10)
MaxProgTime == MaxProgTenths * (TicksPerSecond \div 10)
MaxProgSetTime == MaxProgSetTenths * (TicksPerSecond \div 10)
ClockSteps  == {TicksPerSecond \div 10, TicksPerSecond \div 2}
CoarseSteps == {TicksPerSecond \div 2, 2 * TicksPerSecond}
Tempos      == {120, 130}
BeatChoices == {0, 2, 4}
Subdivisions == {1, 2}
StepChoices == {5, 10}
BarChoices  == {1, 2}
TargetChoices == {125, 140}

NoVisual == [beat |-> -1, isMain |-> FALSE, isAccent |-> FALSE]

----------------------------------------------------------------------------
(* Handlers: each is one task of the host event loop                       *)

\* timestamp of the newest note issued up to and including the last handler
newestNoteTime == IF issued # <<>> THEN issued[Len(issued)].time ELSE prevNoteTime

\* the metronome and its host become m
becomes(m, op) ==
    /\ isPlaying' = m.isPlaying
    /\ tempo' = m.tempo
    /\ soundType' = m.soundType
    /\ subdivision' = m.subdivision
    /\ beatsPerBar' = m.beatsPerBar
    /\ currentBeatInBar' = m.currentBeatInBar
    /\ currentSubdivision' = m.currentSubdivision
    /\ nextNoteTime' = m.nextNoteTime
    /\ timerID' = m.timerID
    /\ progressionEnabled' = m.progressionEnabled
    /\ progressionStep' = m.progressionStep
    /\ progressionBars' = m.progressionBars
    /\ targetTempo' = m.targetTempo
    /\ barCount' = m.barCount
    /\ timers' = m.timers
    /\ unlocks' = m.unlocks
    /\ visuals' = m.visuals
    /\ issued' = m.issued
    /\ tempoCalls' = m.tempoCalls
    /\ sessStart' = m.sessStart
    /\ sessCount' = m.sessCount
    /\ sessStable' = m.sessStable
    /\ sessFirst' = m.sessFirst
    /\ barsDone' = m.barsDone
    /\ restartFirst' = m.restartFirst
    /\ lastOp' = op
    /\ lastVisual' = NoVisual
    /\ prevNoteTime' = newestNoteTime

\* a start() call; the AudioContext is created if there is none, and the host
\* starts it suspended or running
start ==
    /\ nCalls > 0
    /\ nCalls' = nCalls - 1
    /\ stopped' = FALSE
    /\ \E state \in (IF audioContext = "none"
                     THEN {"suspended", "running"} ELSE {audioContext}) :
         LET m == startCall([Self EXCEPT !.restartFirst =
                                IF @ = <<-3, -3>> THEN <<-1, -1>> ELSE @],
                            state, currentTime)
         IN  /\ m.unlocks <= MaxUnlocks
             /\ audioContext' = IF isPlaying THEN audioContext ELSE state
             /\ becomes(m, IF ~isPlaying /\ state = "running"
                           THEN "startNow" ELSE "start")
    /\ UNCHANGED <<currentTime, nSets, calcVars, tapVars>>

\* the context starts running: every pending resume() promise is resolved, in
\* order, and each continuation calls _startPlayback
unlockAudio ==
    /\ audioContext = "suspended"
    /\ unlocks > 0
    /\ audioContext' = "running"
    /\ becomes([startPlaybacks(Self, currentTime, unlocks) EXCEPT !.unlocks = 0],
               "unlockAudio")
    /\ UNCHANGED <<currentTime, stopped, nCalls, nSets, calcVars, tapVars>>

\* a housekeeping timer fires: scheduler()
scheduler ==
    \E id \in timers :
      /\ becomes(runScheduler([Self EXCEPT !.timers = @ \ {id}], currentTime),
                 "scheduler")
      /\ UNCHANGED <<audioContext, currentTime, stopped, nCalls, nSets, calcVars, tapVars>>

stop ==
    /\ nCalls > 0
    /\ nCalls' = nCalls - 1
    /\ stopped' = TRUE
    /\ becomes([stopCall(Self) EXCEPT !.restartFirst =
                    IF isPlaying THEN <<-3, -3>> ELSE <<-2, -2>>], "stop")
    /\ UNCHANGED <<audioContext, currentTime, nSets, calcVars, tapVars>>

\* the audio clock of a running context advances (monotonic, never rewound)
advanceClock ==
    \E d \in ClockSteps :
      /\ audioContext = "running"
      /\ currentTime + d <= MaxTime
      /\ currentTime' = currentTime + d
      /\ becomes(Self, "advanceClock")
      /\ UNCHANGED <<audioContext, stopped, nCalls, nSets, calcVars, tapVars>>

\* a setter called by the user interface
setter(m, op) ==
    /\ nSets > 0
    /\ nSets' = nSets - 1
    /\ becomes(m, op)
    /\ UNCHANGED <<audioContext, currentTime, stopped, nCalls, calcVars, tapVars>>

setTempo ==
    \E bpm \in Tempos :
      setter([Self EXCEPT !.tempo = bpm, !.sessStable = (@ /\ bpm = tempo)],
             "setTempo")

setBeatsPerBar ==
    \E beats \in BeatChoices :
      setter([Self EXCEPT !.beatsPerBar = beats], "setBeatsPerBar")

setSubdivision ==
    \E value \in Subdivisions :
      setter([Self EXCEPT !.subdivision = value,
                          !.sessStable = (@ /\ value = subdivision)],
             "setSubdivision")

\* progressionSelect 'change': progressionEnabled = (value === 'on'); barCount = 0
setProgressionEnabled ==
    \E on \in BOOLEAN :
      setter([Self EXCEPT !.progressionEnabled = on, !.barCount = 0],
             "setProgressionEnabled")

\* tempoStepSlider, tempoBarSlider, targetTempoInput 'input' handlers
setProgressionStep ==
    \E value \in StepChoices :
      setter([Self EXCEPT !.progressionStep = value], "setProgressionStep")

setProgressionBars ==
    \E value \in BarChoices :
      setter([Self EXCEPT !.progressionBars = value], "setProgressionBars")

setTargetTempo ==
    \E value \in TargetChoices :
      setter([Self EXCEPT !.targetTempo = Max(30, Min(300, value))],
             "setTargetTempo")

\* the oldest queued visual callback runs: triggerVisual(beatNumber,
\* isMainBeat) recomputes isAccent from the beatsPerBar of that moment
triggerVisual ==
    /\ visuals # <<>>
    /\ LET beatNumber == Head(visuals).beat
           isMainBeat == Head(visuals).isMain
           isAccent   == beatNumber = 0 /\ beatsPerBar > 0 /\ isMainBeat
       IN  /\ visuals' = Tail(visuals)
           /\ lastVisual' = [beat |-> beatNumber, isMain |-> isMainBeat,
                             isAccent |-> isAccent]
    /\ lastOp' = "triggerVisual"
    /\ issued' = <<>>
    /\ tempoCalls' = <<>>
    /\ prevNoteTime' = newestNoteTime
    /\ UNCHANGED <<metroVars, currentTime, timers, unlocks, histVars, calcVars, tapVars>>

----------------------------------------------------------------------------
(* Specifications of the metronome                                         *)

NoOutcome == [error |-> "pending"]
NoParams == [a |-> <<0, 0>>, b |-> <<0, 0>>, s |-> <<0, 0>>,
             B |-> <<0, 0>>, R |-> <<0, 0>>, N |-> <<0, 0>>]

\* the state left by the constructor, and a host with no audio context yet
InitMetronome ==
    /\ audioContext = "none"
    /\ isPlaying = FALSE
    /\ currentBeatInBar = 0
    /\ currentSubdivision = 0
    /\ beatsPerBar = 4
    /\ subdivision = 1
    /\ tempo = 120
    /\ soundType = "click"
    /\ nextNoteTime = 0
    /\ timerID = 0
    /\ progressionEnabled = FALSE
    /\ progressionStep = 5
    /\ progressionBars = 8
    /\ targetTempo = 180
    /\ barCount = 0
    /\ currentTime = 0
    /\ timers = {}
    /\ unlocks = 0
    /\ visuals = <<>>
    /\ lastOp = "init"
    /\ issued = <<>>
    /\ tempoCalls = <<>>
    /\ lastVisual = NoVisual
    /\ prevNoteTime = -1
    /\ sessStart = -1
    /\ sessCount = 0
    /\ sessStable = FALSE
    /\ sessFirst = <<-1, -1>>
    /\ barsDone = 0
    /\ stopped = FALSE
    /\ restartFirst = <<-2, -2>>
    /\ tapTimes = <<>>
    /\ dateNow = 0

\* start(), stop(), the unlock, the timers and the clock in every interleaving
Init ==
    /\ InitMetronome
    /\ tapBuild = "js"
    /\ nCalls = MaxCalls
    /\ nSets = 0
    /\ params = NoParams
    /\ outcome = NoOutcome

Next ==
    \/ start
    \/ unlockAudio
    \/ scheduler
    \/ stop
    \/ advanceClock

Spec == Init /\ [][Next]_vars

\* a start() call whose AudioContext constructor throws: the exception leaves
\* start() before unlockAudio is reached
startThrows ==
    /\ nCalls > 0
    /\ audioContext = "none"
    /\ nCalls' = nCalls - 1
    /\ becomes(Self, "startThrows")
    /\ UNCHANGED <<audioContext, currentTime, stopped, nSets, calcVars, tapVars>>

\* the oldest pending resume() promise is rejected: the catch branch of
\* start() logs the error and calls _startPlayback; the context stays suspended
unlockRejected ==
    /\ audioContext = "suspended"
    /\ unlocks > 0
    /\ becomes(startPlayback([Self EXCEPT !.unlocks = @ - 1], currentTime),
               "unlockRejected")
    /\ UNCHANGED <<audioContext, currentTime, stopped, nCalls, nSets, calcVars, tapVars>>

\* a housekeeping timer fires and a play*Sound call throws in scheduler()
schedulerThrows ==
    \E id \in timers :
      \E k \in 0..(dueNotes(Self, currentTime) - 1) :
        /\ becomes(schedulerThrowsAt([Self EXCEPT !.timers = @ \ {id}],
                                     currentTime, k),
                   "schedulerThrows")
        /\ UNCHANGED <<audioContext, currentTime, stopped, nCalls, nSets, calcVars, tapVars>>

\* the engine on a host whose audio backend can fail
InitFail ==
    /\ InitMetronome
    /\ tapBuild = "js"
    /\ nCalls = MaxFailCalls
    /\ nSets = 0
    /\ params = NoParams
    /\ outcome = NoOutcome

NextFail ==
    \/ start
    \/ startThrows
    \/ unlockAudio
    \/ unlockRejected
    \/ scheduler
    \/ schedulerThrows
    \/ stop
    \/ advanceClock

SpecFail == InitFail /\ [][NextFail]_vars

\* the same engine with the setters of tempo, meter and subdivision called at
\* any time, and the visual callbacks
InitSet ==
    /\ InitMetronome
    /\ tapBuild = "js"
    /\ nCalls = MaxSetCalls
    /\ nSets = MaxSets
    /\ params = NoParams
    /\ outcome = NoOutcome

NextSet ==
    \/ start
    \/ unlockAudio
    \/ scheduler
    \/ stop
    \/ advanceClock
    \/ setTempo
    \/ setBeatsPerBar
    \/ setSubdivision
    \/ triggerVisual

SpecSet == InitSet /\ [][NextSet]_vars

\* progression as the settings panel configures it for the scenario: on, step
\* 5, every 2 bars, target 140, from the constructor's tempo 120; the clock is
\* followed over many bars, in coarse steps
advanceClockCoarse ==
    \E d \in CoarseSteps :
      /\ audioContext = "running"
      /\ currentTime + d <= MaxProgTime
      /\ currentTime' = currentTime + d
      /\ becomes(Self, "advanceClock")
      /\ UNCHANGED <<audioContext, stopped, nCalls, nSets, calcVars, tapVars>>

InitProgression ==
    /\ audioContext = "none"
    /\ isPlaying = FALSE
    /\ currentBeatInBar = 0
    /\ currentSubdivision = 0
    /\ beatsPerBar = 4
    /\ subdivision = 1
    /\ tempo = 120
    /\ soundType = "click"
    /\ nextNoteTime = 0
    /\ timerID = 0
    /\ progressionEnabled = TRUE
    /\ progressionStep = 5
    /\ progressionBars = 2
    /\ targetTempo = 140
    /\ barCount = 0
    /\ currentTime = 0
    /\ timers = {}
    /\ unlocks = 0
    /\ visuals = <<>>
    /\ lastOp = "init"
    /\ issued = <<>>
    /\ tempoCalls = <<>>
    /\ lastVisual = NoVisual
    /\ prevNoteTime = -1
    /\ sessStart = -1
    /\ sessCount = 0
    /\ sessStable = FALSE
    /\ sessFirst = <<-1, -1>>
    /\ barsDone = 0
    /\ stopped = FALSE
    /\ restartFirst = <<-2, -2>>
    /\ tapTimes = <<>>
    /\ dateNow = 0
    /\ tapBuild = "js"
    /\ params = NoParams
    /\ outcome = NoOutcome

InitProg ==
    /\ InitProgression
    /\ nCalls = MaxProgCalls
    /\ nSets = 0

NextProg ==
    \/ start
    \/ unlockAudio
    \/ scheduler
    \/ advanceClockCoarse

SpecProg == InitProg /\ [][NextProg]_vars

\* the same with the settings changed while the progression runs, over fewer bars
advanceClockProg ==
    \E d \in CoarseSteps :
      /\ audioContext = "running"
      /\ currentTime + d <= MaxProgSetTime
      /\ currentTime' = currentTime + d
      /\ becomes(Self, "advanceClock")
      /\ UNCHANGED <<audioContext, stopped, nCalls, nSets, calcVars, tapVars>>

InitProgSet ==
    /\ InitProgression
    /\ nCalls = MaxProgCalls
    /\ nSets = MaxProgSets

NextProgSet ==
    \/ start
    \/ unlockAudio
    \/ scheduler
    \/ advanceClockProg
    \/ setTempo
    \/ setBeatsPerBar
    \/ setProgressionEnabled
    \/ setProgressionStep
    \/ setProgressionBars
    \/ setTargetTempo

SpecProgSet == InitProgSet /\ [][NextProgSet]_vars

----------------------------------------------------------------------------
(* The calculator.  A JavaScript number is modelled as a fraction          *)
(* <<numerator, denominator>> in lowest terms with denominator >= 0:       *)
(* <<0, 0>> is NaN, <<1, 0>> and <<-1, 0>> are the infinities.  Every       *)
(* arithmetic operation rounds its exact result to the nearest number with *)
(* SignificandBits significant bits, ties to even, as IEEE 754 does with   *)
(* 53 bits; the exponent range is not limited.                             *)

RECURSIVE GCD(_, _)
GCD(x, y) == IF y = 0 THEN x ELSE GCD(y, x % y)

Abs(x)  == IF x < 0 THEN -x ELSE x
Sign(x) == IF x < 0 THEN -1 ELSE IF x > 0 THEN 1 ELSE 0

NaN == <<0, 0>>
Num(i) == <<i, 1>>
IsNaN(x) == x = NaN
IsFinite(x) == x[2] # 0

Norm(n, d) ==
    IF d = 0 THEN <<Sign(n), 0>>
    ELSE LET g == GCD(Abs(n), Abs(d)) IN <<(Sign(d) * n) \div g, Abs(d) \div g>>

\* the exact sum, product and quotient of two numbers
ExactAdd(x, y) ==
    IF ~IsFinite(x) /\ ~IsFinite(y)
    THEN (IF x = y THEN x ELSE NaN)
    ELSE Norm(x[1] * y[2] + y[1] * x[2], x[2] * y[2])
Neg(x)    == <<-x[1], x[2]>>
ExactMul(x, y) == Norm(x[1] * y[1], x[2] * y[2])
ExactDiv(x, y) ==
    IF IsNaN(x) \/ IsNaN(y) THEN NaN
    ELSE IF y[1] = 0 THEN Norm(x[1], 0)
    ELSE Norm(x[1] * y[2] * Sign(y[1]), x[2] * Abs(y[1]))

\* the significand of a number of the model, in bits
SignificandBits == 9
TwoToBits == 2 ^ SignificandBits

\* n / d, both positive, rounded to the nearest integer, ties to even
RoundHalfEven(n, d) ==
    LET q == n \div d
        r == n % d
    IN  IF 2 * r > d THEN q + 1
        ELSE IF 2 * r < d THEN q
        ELSE IF q % 2 = 0 THEN q ELSE q + 1

\* the positive fraction n / d rounded to SignificandBits significant bits
RECURSIVE FlPos(_, _)
FlPos(n, d) ==
    IF n \div TwoToBits >= d
    THEN LET h == FlPos(n, 2 * d) IN Norm(2 * h[1], h[2])
    ELSE IF n \div (TwoToBits \div 2) < d
    THEN LET h == FlPos(2 * n, d) IN Norm(h[1], 2 * h[2])
    ELSE <<RoundHalfEven(n, d), 1>>

\* a number rounded to the nearest representable one
Fl(x) ==
    IF ~IsFinite(x) \/ x[1] = 0 THEN x
    ELSE LET r == FlPos(Abs(x[1]), x[2]) IN <<Sign(x[1]) * r[1], r[2]>>

\* the operators +, -, * and / of the language
Add(x, y) == Fl(ExactAdd(x, y))
Sub(x, y) == Add(x, Neg(y))
Mul(x, y) == Fl(ExactMul(x, y))
Div(x, y) == Fl(ExactDiv(x, y))

\* the comparisons of JavaScript: false as soon as an operand is NaN
Le(x, y) == ~IsNaN(x) /\ ~IsNaN(y) /\ x[1] * y[2] <= y[1] * x[2]
Lt(x, y) == ~IsNaN(x) /\ ~IsNaN(y) /\ x # y /\ x[1] * y[2] <= y[1] * x[2]
Ge(x, y) == Le(y, x)

\* Math.floor as it would be if it rounded up
Floor_up(x) == IF IsFinite(x) THEN Num(x[1] \div x[2] + 1) ELSE x

\* Math.floor
Floor(x) == IF IsFinite(x) THEN Num(x[1] \div x[2]) ELSE x

\* kahanSum(numbers)
RECURSIVE kahanLoop(_, _, _, _)
kahanLoop(numbers, i, sum, compensation) ==
    IF i > Len(numbers) THEN sum
    ELSE LET y == Sub(numbers[i], compensation)
             t == Add(sum, y)
         IN  kahanLoop(numbers, i + 1, t, Sub(Sub(t, sum), y))

kahanSum(numbers) == kahanLoop(numbers, 1, Num(0), Num(0))

RECURSIVE stepTimes(_, _, _, _, _), stepTimes_short(_, _, _, _, _)

\* the step loop as it would be if it stopped one step early (k < n)
stepTimes_short(a, s, C, n, k) ==
    IF Lt(Num(k), n)
    THEN <<Div(C, Add(a, Mul(s, Num(k))))>> \o stepTimes_short(a, s, C, n, k + 1)
    ELSE <<>>

\* for (let k = 0; k <= n; k++) stepTimes.push(C / (a + s * k))
stepTimes(a, s, C, n, k) ==
    IF Le(Num(k), n)
    THEN <<Div(C, Add(a, Mul(s, Num(k))))>> \o stepTimes(a, s, C, n, k + 1)
    ELSE <<>>

\* validate as it would be without the start >= target test
validate_noOrder(p) ==
    IF Le(p.s, Num(0)) THEN "step"
    ELSE IF Le(p.a, Num(0)) \/ Le(p.b, Num(0)) THEN "tempo"
    ELSE IF Le(p.B, Num(0)) \/ Le(p.R, Num(0)) \/ Le(p.N, Num(0)) THEN "counts"
    ELSE "ok"

\* the four validation failures of calculateTempoPracticeTime, in its order,
\* or "ok"
validate(p) ==
    IF Le(p.s, Num(0)) THEN "step"
    ELSE IF Le(p.a, Num(0)) \/ Le(p.b, Num(0)) THEN "tempo"
    ELSE IF Ge(p.a, p.b) THEN "order"
    ELSE IF Le(p.B, Num(0)) \/ Le(p.R, Num(0)) \/ Le(p.N, Num(0)) THEN "counts"
    ELSE "ok"

\* the closed form as it would be without the correction term
sumApprox_noCorrection(a, bPrime, n, C) ==
    LET S == Add(a, bPrime)
        P == Mul(a, bPrime)
        termIntegral == Div(Mul(Mul(Num(4), n), S), Add(Mul(S, S), Mul(Num(4), P)))
    IN  Mul(C, termIntegral)

\* sumApprox = C * (termIntegral + termCorrection)
sumApprox(a, bPrime, n, C) ==
    LET S == Add(a, bPrime)
        P == Mul(a, bPrime)
        termIntegral   == Div(Mul(Mul(Num(4), n), S), Add(Mul(S, S), Mul(Num(4), P)))
        termCorrection == Div(S, Mul(Num(2), P))
    IN  Mul(C, Add(termIntegral, termCorrection))

\* the relative error as it would be without the subtraction
errorRate_noSubtract(totalApprox, totalExact) ==
    Mul(Div(totalApprox, totalExact), Num(100))

\* errorRate = ((totalApprox - totalExact) / totalExact) * 100
errorRate(totalApprox, totalExact) ==
    Mul(Div(Sub(totalApprox, totalExact), totalExact), Num(100))

calculateTempoPracticeTime(p) ==
    IF validate(p) # "ok"
    THEN [error |-> validate(p)]
    ELSE LET K      == Mul(p.B, p.R)
             n      == Floor(Div(Sub(p.b, p.a), p.s))
             bPrime == Add(p.a, Mul(n, p.s))
             C      == Mul(Num(60), K)
             sumExact   == kahanSum(stepTimes(p.a, p.s, C, n, 0))
             totalExact == Mul(sumExact, p.N)
             totalApprox == Mul(sumApprox(p.a, bPrime, n, C), p.N)
         IN  [error |-> "none",
              exactSeconds |-> totalExact, approxSeconds |-> totalApprox,
              errorRate |-> errorRate(totalApprox, totalExact), nSteps |-> n, actualEndTempo |-> bPrime,
              totalBeatsPerStep |-> K, timeConstantC |-> C, inputParams |-> p]

\* the values a form field can deliver: parseFloat / parseInt give NaN for an
\* empty field
TempoInputs == {NaN} \cup {Num(i) : i \in (0 - 1)..MaxTempoInput}
StepInputs  == {NaN} \cup {Num(i) : i \in (0 - 1)..MaxStepInput}
CountInputs == {NaN} \cup {Num(i) : i \in (0 - 1)..MaxCountInput}

\* handleSubmit: calculate on the submitted form
calculate ==
    /\ outcome = NoOutcome
    /\ outcome' = calculateTempoPracticeTime(params)
    /\ UNCHANGED <<params, metroVars, envVars, obsVars, histVars, tapVars>>

\* a routine from 60 to 120 in steps of 10, 4 beats, 2 repetitions, 1 set
RampParams == [a |-> Num(60), b |-> Num(120), s |-> Num(10),
               B |-> Num(4), R |-> Num(2), N |-> Num(1)]

InitCalc ==
    /\ InitMetronome
    /\ tapBuild = "js"
    /\ nCalls = 0
    /\ nSets = 0
    /\ \/ params \in [a : TempoInputs, b : TempoInputs, s : StepInputs,
                      B : CountInputs, R : CountInputs, N : CountInputs]
       \/ params = RampParams
    /\ outcome = NoOutcome

NextCalc == calculate

SpecCalc == InitCalc /\ [][NextCalc]_vars

\* parseFloat of a decimal string with one digit after the point: the nearest
\* representable number
parseFloat(tenths) == Fl(Norm(tenths, 10))

\* the form submitted with decimal tempos and step, one beat, repetition and set
DecTempoInputs == {parseFloat(i) : i \in 1..MaxDecTenths}
DecStepInputs  == {parseFloat(i) : i \in 1..MaxDecStep}

InitDec ==
    /\ InitMetronome
    /\ tapBuild = "js"
    /\ nCalls = 0
    /\ nSets = 0
    /\ params \in [a : DecTempoInputs, b : DecTempoInputs, s : DecStepInputs,
                   B : {Num(1)}, R : {Num(1)}, N : {Num(1)}]
    /\ outcome = NoOutcome

NextDec == calculate

SpecDec == InitDec /\ [][NextDec]_vars

----------------------------------------------------------------------------
(* The engine after the settings handlers have configured it               *)

\* a metronome that was never started, with the meter, subdivision, tempo,
\* voice and progression that the settings handlers have set
InitSettings(beats, sd, bpm, voice, on, step, bars, target) ==
    /\ audioContext = "none"
    /\ isPlaying = FALSE
    /\ currentBeatInBar = 0
    /\ currentSubdivision = 0
    /\ beatsPerBar = beats
    /\ subdivision = sd
    /\ tempo = bpm
    /\ soundType = voice
    /\ nextNoteTime = 0
    /\ timerID = 0
    /\ progressionEnabled = on
    /\ progressionStep = step
    /\ progressionBars = bars
    /\ targetTempo = target
    /\ barCount = 0
    /\ currentTime = 0
    /\ timers = {}
    /\ unlocks = 0
    /\ visuals = <<>>
    /\ lastOp = "init"
    /\ issued = <<>>
    /\ tempoCalls = <<>>
    /\ lastVisual = NoVisual
    /\ prevNoteTime = -1
    /\ sessStart = -1
    /\ sessCount = 0
    /\ sessStable = FALSE
    /\ sessFirst = <<-1, -1>>
    /\ barsDone = 0
    /\ stopped = FALSE
    /\ restartFirst = <<-2, -2>>
    /\ tapTimes = <<>>
    /\ dateNow = 0
    /\ tapBuild = "js"
    /\ params = NoParams
    /\ outcome = NoOutcome

\* the voices of the sound select, tempos across the range of updateTempo
Voices == {"click", "wood", "beep"}
VoiceTempos == {MinBpm, 150, MaxBpm}

\* every voice at every subdivision, started once and followed on the clock
InitVoice ==
    /\ \E voice \in Voices, bpm \in VoiceTempos, sd \in 1..4 :
         InitSettings(4, sd, bpm, voice, FALSE, 5, 8, 180)
    /\ nCalls = MaxSetCalls
    /\ nSets = 0

NextVoice ==
    \/ start
    \/ unlockAudio
    \/ scheduler
    \/ advanceClock

SpecVoice == InitVoice /\ [][NextVoice]_vars

\* every meter of 1 to 4 beats at every subdivision, started and stopped
BeatTempos == {120, MaxBpm}

InitBeat ==
    /\ \E beats \in 1..4, sd \in 1..4, bpm \in BeatTempos :
         InitSettings(beats, sd, bpm, "click", FALSE, 5, 8, 180)
    /\ nCalls = MaxBeatCalls
    /\ nSets = 0

NextBeat ==
    \/ start
    \/ unlockAudio
    \/ scheduler
    \/ stop
    \/ advanceClock

SpecBeat == InitBeat /\ [][NextBeat]_vars

\* the meter "free" (beatsPerBar = 0) with the progression on, from tempo 120
InitFree ==
    /\ \E sd \in 1..2, bars \in BarChoices :
         InitSettings(0, sd, 120, "click", TRUE, 5, bars, 140)
    /\ nCalls = MaxSetCalls
    /\ nSets = 0

NextFree ==
    \/ start
    \/ unlockAudio
    \/ scheduler
    \/ advanceClock

SpecFree == InitFree /\ [][NextFree]_vars

\* the while loop of scheduler() does not end: a note is due and nextNote
\* leaves nextNoteTime where it was, because secondsPerNote is below the
\* resolution of the clock value it is added to
RECURSIVE loopHangs(_, _)
loopHangs(m, now) ==
    IF m.nextNoteTime < now + ScheduleAheadTime
    THEN IF nextNote(m).nextNoteTime = m.nextNoteTime
         THEN TRUE
         ELSE loopHangs(nextNote(scheduleNote(m, m.currentBeatInBar,
                                              m.currentSubdivision,
                                              m.nextNoteTime)), now)
    ELSE FALSE

\* a tempo that setTempo accepts (it stores any number) and whose interval is
\* below the resolution of the clock
HugeTempo == 60 * TicksPerSecond + 1
TickTempos == {120, MaxBpm, HugeTempo}

\* the event loop runs handlers only while no handler is stuck
Responsive == lastOp # "hang"

tickStart  == Responsive /\ start
tickUnlock == Responsive /\ unlockAudio
tickClock  == Responsive /\ advanceClock

\* a housekeeping timer fires and scheduler() returns
tickReturns ==
    /\ Responsive
    /\ ~loopHangs(Self, currentTime)
    /\ scheduler

\* a housekeeping timer fires and scheduler() never returns
tickHangs ==
    /\ Responsive
    /\ loopHangs(Self, currentTime)
    /\ \E id \in timers :
         becomes([Self EXCEPT !.timers = @ \ {id}], "hang")
    /\ UNCHANGED <<audioContext, currentTime, stopped, nCalls, nSets, calcVars, tapVars>>

\* the engine at tempos that setTempo accepts, with and without progression
InitTick ==
    /\ \E sd \in 1..2, bpm \in TickTempos, on \in BOOLEAN :
         InitSettings(4, sd, bpm, "click", on, 5, 2, 140)
    /\ nCalls = MaxSetCalls
    /\ nSets = 0

NextTick ==
    \/ tickStart
    \/ tickUnlock
    \/ tickReturns
    \/ tickHangs
    \/ tickClock

SpecTick == InitTick /\ [][NextTick]_vars

\* the progression towards a target that the target input allows (30..300):
\* from tempo 240 in steps of 5 at every bar, left playing; the timer and the
\* clock keep running
TargetLimits == {MaxBpm, 300}

InitReach ==
    /\ \E target \in TargetLimits :
         InitSettings(4, 1, 240, "click", TRUE, 5, 1, target)
    /\ nCalls = MaxProgCalls
    /\ nSets = 0

NextReach ==
    \/ start
    \/ unlockAudio
    \/ scheduler
    \/ advanceClockCoarse

\* the audio clock of a running context never stops advancing
SpecReach == InitReach /\ [][NextReach]_vars /\ WF_vars(advanceClockCoarse)

----------------------------------------------------------------------------
(* Tap tempo: the click handler of the tap button                          *)

TAP_TIMEOUT == 2000          \* Reset taps after 2 seconds

\* Math.round(n / d) for n >= 0, d > 0
MathRound(n, d) == (2 * n + d) \div (2 * d)

\* the stale test as it would be if it never reset the history
dropStale_never(times, now) == times

\* if (tapTimes.length > 0 && now - tapTimes[tapTimes.length - 1] > TAP_TIMEOUT)
\*     tapTimes = []
dropStale(times, now) ==
    IF Len(times) > 0 /\ now - times[Len(times)] > TAP_TIMEOUT
    THEN <<>> ELSE times

\* tapTimes.push(now); if (tapTimes.length > 4) tapTimes.shift()
pushTap(times, now) ==
    LET pushed == Append(dropStale(times, now), now)
    IN  IF Len(pushed) > 4 THEN Tail(pushed) ELSE pushed

\* intervals.reduce((a, b) => a + b) over intervals[i] = tapTimes[i] - tapTimes[i - 1]
RECURSIVE sumIntervals(_, _)
sumIntervals(times, i) ==
    IF i > Len(times) THEN 0
    ELSE (times[i] - times[i - 1]) + sumIntervals(times, i + 1)

\* Math.round(60000 / avgInterval) with avgInterval = sum / intervals.length,
\* for a history of at least 2 taps at distinct times
tapBpm(times) == MathRound(60000 * (Len(times) - 1), sumIntervals(times, 2))

\* the rest of the handler of tempo-calculator.js: updateTempo(bpm)
tapBtnClick(m, times) ==
    IF Len(times) >= 2 THEN updateTempo(m, tapBpm(times)) ELSE m

\* the rest of the handler of MetronomeUI.setupTapTempo: updateTempo only
\* if (calculatedBpm >= 30 && calculatedBpm <= 250)
setupTapTempo(m, times) ==
    IF Len(times) >= 2 /\ tapBpm(times) >= 30 /\ tapBpm(times) <= 250
    THEN updateTempo(m, tapBpm(times)) ELSE m

\* the times between two clicks, in ms
TapGaps == {100, 240, 500, 700, 2000, 2001}

\* a click on the tap button, gap ms after the last one
tap ==
    /\ nCalls > 0
    /\ nCalls' = nCalls - 1
    /\ \E gap \in TapGaps :
         LET now   == dateNow + gap
             times == pushTap(tapTimes, now)
         IN  /\ dateNow' = now
             /\ tapTimes' = times
             /\ becomes(IF tapBuild = "js" THEN tapBtnClick(Self, times)
                        ELSE setupTapTempo(Self, times), "tap")
    /\ UNCHANGED <<audioContext, currentTime, stopped, nSets, calcVars, tapBuild>>

\* the tap button of either build, on a metronome that was never started
InitTap ==
    /\ InitMetronome
    /\ tapBuild \in {"js", "ts"}
    /\ nCalls = MaxTaps
    /\ nSets = 0
    /\ params = NoParams
    /\ outcome = NoOutcome

NextTap == tap

SpecTap == InitTap /\ [][NextTap]_vars

----------------------------------------------------------------------------
(* Properties                                                              *)

\* the last handler ran scheduler()
RanScheduler == lastOp \in {"scheduler", "startNow", "unlockAudio"}

\* the notes of a session that began at clock t0 with a constant interval d
\* and are due at clock now: those at t0 + StartDelay + k*d, k >= 0, earlier
\* than now + ScheduleAheadTime
DueNotes(t0, d, now) ==
    {k \in 0..(MaxProgTime \div d) : t0 + StartDelay + k * d < now + ScheduleAheadTime}

\* C1: at the end of every run of scheduler() every note issued so far is
\* earlier than currentTime + scheduleAheadTime and the next one to issue is
\* not (nextNoteTime >= currentTime + scheduleAheadTime); the notes were
\* issued in strictly increasing timestamp order, none twice; and in a
\* session whose tempo and subdivision did not change, the notes issued are
\* exactly the due notes of the beat sequence t0 + 0.1 + k * interval.
C1_LookAhead ==
    RanScheduler =>
      /\ nextNoteTime >= currentTime + ScheduleAheadTime
      /\ \A i \in 1..Len(issued) :
           /\ issued[i].time < currentTime + ScheduleAheadTime
           /\ issued[i].time > (IF i = 1 THEN prevNoteTime ELSE issued[i - 1].time)
      /\ sessStable =>
           LET d == (60 * TicksPerSecond) \div (tempo * subdivision)
               k0 == sessCount - Len(issued)
           IN  /\ sessCount = Cardinality(DueNotes(sessStart, d, currentTime))
               /\ \A i \in 1..Len(issued) :
                    issued[i].time = sessStart + StartDelay + (k0 + i - 1) * d

\* a delayed tick has just issued two notes at once
C1_Witness ==
    /\ lastOp = "scheduler"
    /\ sessStable
    /\ Len(issued) = 2
    /\ sessCount = 3

\* C3: start() called while isPlaying changes nothing of the engine: not
\* isPlaying, the counters, nextNoteTime, tempo, the pending timers or
\* timerID, and it queues no further _startPlayback.
C3_StartWhilePlaying ==
    [][(isPlaying /\ lastOp' \in {"start", "startNow"})
         => UNCHANGED <<isPlaying, currentBeatInBar, currentSubdivision,
                        nextNoteTime, tempo, timers, timerID, unlocks,
                        audioContext, barCount>>]_vars

\* start() has just returned from a call made while playing, mid-bar
C3_Witness ==
    /\ lastOp = "start"
    /\ isPlaying
    /\ timers # {}
    /\ currentBeatInBar > 0

\* C4: once stop() has returned, no note is issued until start() is called
\* again.
C4_NoNoteAfterStop == ~(stopped /\ issued # <<>>)

C6_CountersInRange ==
    /\ 0 <= currentSubdivision /\ currentSubdivision < subdivision
    /\ beatsPerBar > 0 => (0 <= currentBeatInBar /\ currentBeatInBar < beatsPerBar)

\* C7: a note goes to the voice as main exactly when its subdivision counter
\* is 0 and as accented exactly when it is main, its beat is 0 and beatsPerBar
\* > 0; the visual callback flags the accent by the same rule; with
\* beatsPerBar = 0 neither ever flags an accent.
C7_Accent ==
    /\ \A i \in 1..Len(issued) :
         /\ issued[i].isMain <=> (issued[i].sub = 0)
         /\ issued[i].isAccent <=>
              (issued[i].isMain /\ issued[i].beat = 0 /\ issued[i].beatsPerBar > 0)
         /\ issued[i].beatsPerBar = 0 => ~issued[i].isAccent
         /\ issued[i].beatsPerBar = beatsPerBar
    /\ lastOp = "triggerVisual" =>
         /\ lastVisual.isAccent <=>
              (lastVisual.isMain /\ lastVisual.beat = 0 /\ beatsPerBar > 0)
         /\ beatsPerBar = 0 => ~lastVisual.isAccent

\* the visual callback of a main beat 0 has just run with beatsPerBar = 0
C7_Witness ==
    /\ lastOp = "triggerVisual"
    /\ beatsPerBar = 0
    /\ lastVisual.beat = 0
    /\ lastVisual.isMain
    /\ ~lastVisual.isAccent
    /\ sessCount > 1

\* C8 as stated: with progression enabled, step 5, bars 2, target 140 and
\* starting tempo 120, after 4 completed bars the
\* tempo is 125, after 8 completed bars 130, and it never exceeds 140.
C8_Original ==
    /\ barsDone = 4 => tempo = 125
    /\ barsDone = 8 => tempo = 130
    /\ tempo <= 140

\* C8: with progression enabled, step 5, bars 2, target 140 and starting
\* tempo 120, the tempo rises by 5 at every second
\* completed bar: 125 after 2 bars, 130 after 4, 135 after 6, 140 after 8, and
\* it stays at 140, never above, however many further bars elapse.
C8_Progression ==
    /\ tempo = Min(120 + 5 * (barsDone \div 2), 140)
    /\ tempo <= 140
    /\ barsDone = 2 => tempo = 125
    /\ barsDone = 4 => tempo = 130
    /\ barsDone = 8 => tempo = 140
    /\ barCount = (IF barsDone < 8 THEN barsDone % 2 ELSE barsDone - 8)

\* two bars beyond the bar that reached the target, the tempo is still 140
C8_Witness ==
    /\ lastOp = "scheduler"
    /\ barsDone >= 10
    /\ tempo = 140

\* C9: the tempo-change callback runs only inside nextNote when the
\* progression advances the tempo, once per advance and with the new tempo:
\* a handler other than scheduler() (start, the setters) makes no call; a
\* scheduler() run that makes no call leaves the tempo as it was (so a bar
\* completed without an advance makes no call); the calls of one run are the
\* successive advanced tempos, each above the one before, and the last is
\* the tempo the run leaves behind.
C9_TempoCallback ==
    [][/\ lastOp' # "scheduler" => tempoCalls' = <<>>
       /\ lastOp' = "scheduler" =>
            LET n == Len(tempoCalls')
                before(i) == IF i = 1 THEN tempo
                             ELSE Min(Max(tempoCalls'[i - 1], MinBpm), MaxBpm)
            IN  /\ n = 0 => tempo' = tempo
                /\ n > 0 =>
                     /\ progressionEnabled
                     /\ tempo' = Min(Max(tempoCalls'[n], MinBpm), MaxBpm)
                     /\ n <= barsDone' - barsDone
                /\ \A i \in 1..n :
                     /\ before(i) < targetTempo
                     /\ tempoCalls'[i] = Min(before(i) + progressionStep, targetTempo)
                     /\ tempoCalls'[i] > before(i)]_vars

\* a scheduler() run has completed the second bar and made the one call
C9_Witness ==
    /\ lastOp = "scheduler"
    /\ Len(tempoCalls) = 1
    /\ tempoCalls[1] = tempo
    /\ barsDone = 2
    /\ tempo = 125

C11_NoNaNResult ==
    outcome # NoOutcome =>
      \/ outcome.error \in {"step", "tempo", "order", "counts"}
      \/ /\ outcome.error = "none"
         /\ ~IsNaN(outcome.exactSeconds)
         /\ ~IsNaN(outcome.approxSeconds)
         /\ ~IsNaN(outcome.errorRate)
         /\ ~IsNaN(outcome.nSteps)
         /\ ~IsNaN(outcome.actualEndTempo)

\* the submitted params are valid PracticeParams: numbers with s > 0,
\* 0 < a < b and B, R, N > 0
ValidParams ==
    /\ Lt(Num(0), params.s)
    /\ Lt(Num(0), params.a)
    /\ Lt(params.a, params.b)
    /\ Lt(Num(0), params.B) /\ Lt(Num(0), params.R) /\ Lt(Num(0), params.N)

\* C12: for all valid params, n = floor((b - a) / s) is >= 0 and the
\* reported end tempo b' = a + n * s satisfies a <= b' <= b, with b' = b
\* exactly when b - a is an exact multiple of s.
C12_EndTempo ==
    (outcome # NoOutcome /\ ValidParams) =>
      LET p == params
          n == outcome.nSteps
          bPrime == outcome.actualEndTempo
          steps == ExactDiv(ExactAdd(p.b, Neg(p.a)), p.s)
      IN  /\ Ge(n, Num(0))
          /\ Le(p.a, bPrime)
          /\ Le(bPrime, p.b)
          /\ (bPrime = p.b) <=> (steps[2] = 1)

\* the sum over k = k0..n of C / (a + s * k) in exact arithmetic
RECURSIVE ExactSum(_, _, _, _, _)
ExactSum(a, s, C, n, k) ==
    IF k > n THEN Num(0)
    ELSE ExactAdd(ExactDiv(C, ExactAdd(a, ExactMul(s, Num(k)))),
                  ExactSum(a, s, C, n, k + 1))

\* x is the exact value ref but for the rounding of the operations that
\* computed it: they differ by at most 2^-(SignificandBits - lost) of ref
CloseBy(x, ref, lost) ==
    LET diff == ExactAdd(x, Neg(ref))
    IN  /\ IsFinite(x)
        /\ Abs(diff[1]) * (2 ^ (SignificandBits - lost)) * ref[2] <= Abs(ref[1]) * diff[2]

Close(x, ref) == CloseBy(x, ref, 3)

\* C13: for all valid params the result has totalBeatsPerStep K = B * R,
\* time constant C = 60 * K and exactSeconds = N * (sum over k = 0..n of
\* C / (a + s * k)), n + 1 terms, up to rounding, and exactSeconds > 0; for
\* a = 60, b = 120, s = 10, B = 4, R = 2, N = 1 it has K = 8, n = 6, b' = 120,
\* C = 480 and exactSeconds = 480/60 + 480/70 + ... + 480/120.
C13_ExactSeconds ==
    (outcome # NoOutcome /\ ValidParams) =>
      LET p == params
          K == ExactMul(p.B, p.R)
          C == ExactMul(Num(60), K)
          n == (ExactDiv(ExactAdd(p.b, Neg(p.a)), p.s)[1])
                 \div (ExactDiv(ExactAdd(p.b, Neg(p.a)), p.s)[2])
      IN  /\ outcome.error = "none"
          /\ outcome.totalBeatsPerStep = K
          /\ outcome.timeConstantC = C
          /\ outcome.nSteps = Num(n)
          /\ Close(outcome.exactSeconds, ExactMul(p.N, ExactSum(p.a, p.s, C, n, 0)))
          /\ Lt(Num(0), outcome.exactSeconds)
          /\ p = RampParams =>
               /\ K = Num(8) /\ n = 6 /\ C = Num(480)
               /\ outcome.actualEndTempo = Num(120)
               /\ Close(outcome.exactSeconds,
                        ExactAdd(<<480, 60>>, ExactAdd(<<480, 70>>, ExactAdd(<<480, 80>>,
                        ExactAdd(<<480, 90>>, ExactAdd(<<480, 100>>,
                        ExactAdd(<<480, 110>>, <<480, 120>>)))))))

\* calculate has returned the result of the 60-to-120 routine
C13_Witness ==
    /\ outcome # NoOutcome
    /\ params = RampParams
    /\ outcome.error = "none"
    /\ outcome.nSteps = Num(6)
    /\ Lt(Num(39), outcome.exactSeconds) /\ Lt(outcome.exactSeconds, Num(40))

AbsQ(x) == <<Abs(x[1]), x[2]>>

C17_FailedStartStaysStopped ==
    [][(lastOp' \in {"startThrows", "unlockRejected"} /\ ~isPlaying) =>
          (~isPlaying' /\ timers' = timers /\ issued' = <<>>)]_vars

\* C18: if a play*Sound call throws inside a housekeeping tick while Playing,
\* the beat position still advances past every beat that was due in that
\* tick and the housekeeping timer is re-armed
C18_ToneFailureKeepsLoop ==
    [][(lastOp' = "schedulerThrows" /\ isPlaying) =>
          /\ timerID' \in timers'
          /\ nextNoteTime' >= currentTime' + ScheduleAheadTime]_vars
\* C19: a tap more than 2000 ms after the previous tap resets the history to
\* the new tap alone and does not change the tempo; a tap at most 2000 ms
\* after the previous one keeps the previous tap in the history
C19_TapReset ==
    [][(lastOp' = "tap" /\ tapTimes # <<>>) =>
          LET gap == dateNow' - tapTimes[Len(tapTimes)] IN
          /\ gap > 2000 => (tapTimes' = <<dateNow'>> /\ tempo' = tempo)
          /\ gap <= 2000 =>
                /\ Len(tapTimes') >= 2
                /\ tapTimes'[Len(tapTimes') - 1] = tapTimes[Len(tapTimes)]
                /\ tapTimes'[Len(tapTimes')] = dateNow']_vars

\* taps had set the tempo, then a tap came late and is alone in the history
C19_Witness ==
    /\ lastOp = "tap"
    /\ tapTimes = <<dateNow>>
    /\ tempo # 120
    /\ nCalls <= MaxTaps - 3

\* C20: the history never holds more than 4 timestamps, and after every tap
\* that leaves at least 2 of them the tempo is round(60000 / mean interval)
\* clamped into 30..250
C20_TapEstimate ==
    [][lastOp' = "tap" =>
          /\ Len(tapTimes') <= 4
          /\ Len(tapTimes') >= 2 =>
                tempo' = Min(Max(MathRound(60000 * (Len(tapTimes') - 1),
                                           tapTimes'[Len(tapTimes')] - tapTimes'[1]),
                                 30), 250)]_vars
\* C21: for every voice, every tempo in 30..250 and every subdivision 1..4,
\* the oscillator of a note has stopped (0.03 s click, 0.05 s wood, 0.1 s beep
\* after its start) when the next note starts
C21_NotesDecay ==
    \A i \in 1..Len(issued) :
        IF i = 1
        THEN prevNoteTime >= 0 =>
                 prevNoteTime + oscStopAfter(soundType) <= issued[1].time
        ELSE issued[i - 1].oscStop <= issued[i].time
\* the position that follows (beat, sub) in a meter of M beats of D notes
NextPosition(beat, sub, M, D) ==
    IF sub + 1 < D THEN <<beat, sub + 1>>
    ELSE IF beat + 1 < M THEN <<beat + 1, 0>>
    ELSE <<0, 0>>

\* C22: with constant beatsPerBar = M > 0 and subdivision = D >= 1 the
\* positions of successively issued notes are (0,0), (0,1), ..., (0,D-1),
\* (1,0), ..., (M-1,D-1), (0,0), ...: the first note after a start is (0,0),
\* each note is issued at the position the engine stood at, each next note at
\* the position that follows, and the engine is left at the position that
\* follows the last note
C22_BeatAdvance ==
    [][/\ sessFirst' \in {<<-1, -1>>, <<0, 0>>}
       /\ \A i \in 1..Len(issued') :
            LET here == <<issued'[i].beat, issued'[i].sub>> IN
            /\ here = (IF i > 1
                       THEN NextPosition(issued'[i - 1].beat, issued'[i - 1].sub,
                                         beatsPerBar, subdivision)
                       ELSE IF lastOp' \in {"startNow", "unlockAudio"}
                       THEN <<0, 0>>
                       ELSE <<currentBeatInBar, currentSubdivision>>)
            /\ i = Len(issued') =>
                  <<currentBeatInBar', currentSubdivision'>> =
                      NextPosition(here[1], here[2], beatsPerBar, subdivision)]_vars

\* the last note of a bar of several beats of several notes was issued and
\* the engine stands at the start of the next bar
C22_Witness ==
    /\ issued # <<>>
    /\ beatsPerBar >= 2
    /\ subdivision >= 2
    /\ issued[Len(issued)].beat = beatsPerBar - 1
    /\ issued[Len(issued)].sub = subdivision - 1
    /\ currentBeatInBar = 0
    /\ currentSubdivision = 0
    /\ barsDone >= 1
\* C23: with progression enabled, barCount is reset to zero whenever it reaches
\* progressionBars, so that 0 <= barCount < progressionBars holds after every
\* nextNote call, also after the tempo has reached the target
C23_BarCountBelowBars ==
    progressionEnabled => (0 <= barCount /\ barCount < progressionBars)
\* C24: with beatsPerBar = 0 no bar ever completes: with progression enabled
\* barCount is never incremented and progression never changes the tempo
C24_FreeMeterNoBars ==
    (beatsPerBar = 0 /\ progressionEnabled) =>
        (barCount = 0 /\ barsDone = 0 /\ tempo = 120 /\ tempoCalls = <<>>)
\* C25: every housekeeping tick terminates: for any positive finite tempo and
\* subdivision >= 1 the while loop of scheduler() issues finitely many notes
\* and returns, also with progression enabled
C25_TickTerminates == lastOp # "hang"
\* the step does not fit in the range: s > b - a, with b - a as the code
\* computes it
SingleStep == ValidParams /\ Lt(Sub(params.b, params.a), params.s)

\* C26 (as stated): when s > b - a, calculate returns a result with nSteps = 0,
\* actualEndTempo = a and exactSeconds = N * C / a (as computed), and
\* approxSeconds = exactSeconds and the error rate is 0
C26_Original ==
    (outcome # NoOutcome /\ SingleStep) =>
        /\ outcome.error = "none"
        /\ outcome.nSteps = Num(0)
        /\ outcome.actualEndTempo = params.a
        /\ Close(outcome.exactSeconds,
                 ExactDiv(ExactMul(params.N, outcome.timeConstantC), params.a))
        /\ outcome.approxSeconds = outcome.exactSeconds
        /\ outcome.errorRate = Num(0)

\* C26 (amended): when s > b - a, calculate returns a result with nSteps = 0,
\* actualEndTempo = a and exactSeconds = N * C / a, and approxSeconds and
\* exactSeconds coincide up to rounding, the error rate being 0 or of the
\* size of the rounding
C26_SingleStep ==
    (outcome # NoOutcome /\ SingleStep) =>
        /\ outcome.error = "none"
        /\ outcome.nSteps = Num(0)
        /\ outcome.actualEndTempo = params.a
        /\ Close(outcome.exactSeconds,
                 ExactDiv(ExactMul(params.N, outcome.timeConstantC), params.a))
        /\ Close(outcome.approxSeconds, outcome.exactSeconds)
        /\ Le(AbsQ(outcome.errorRate), <<100, 2 ^ (SignificandBits - 3)>>)

\* a single-step result was returned whose approximation is not the exact
\* value
C26_Witness ==
    /\ outcome # NoOutcome
    /\ SingleStep
    /\ outcome.nSteps = Num(0)
    /\ outcome.approxSeconds # outcome.exactSeconds
\* C27: in every reachable state of any interleaving of start(), stop(), unlock
\* resolutions and timer firings, at most one housekeeping timer is pending,
\* and one is pending if and only if isPlaying is true
C27_OneTimer ==
    /\ Cardinality(timers) <= 1
    /\ (timers # {}) <=> isPlaying
\* C28: if stop() is called after start() and before the resume() promise of
\* that start() has resolved, the engine ends in Stopped: when the promise
\* resolves, isPlaying is false, no housekeeping timer is armed and no note is
\* issued
C28_StopBeforeUnlock ==
    [][(stopped /\ lastOp' = "unlockAudio") =>
          (~isPlaying' /\ timers' = {} /\ issued' = <<>> /\ sessCount' = 0)]_vars
\* C29: no note is issued with a timestamp in the past: every note the last
\* handler handed to scheduleNote has time >= currentTime, also when the host
\* delayed the tick by more than scheduleAheadTime
C29_NoPastNote ==
    \A i \in 1..Len(issued) : issued[i].time >= currentTime
\* C30: with progression enabled, beatsPerBar > 0, step >= 1, bars >= 1 and a
\* tempo below the target (which may be up to 300), a metronome that keeps
\* playing eventually has the target tempo, and from then on progression
\* changes the tempo no more and fires the tempo-change callback no more.
\* Keeps playing: the housekeeping tick goes on running to the end of the
\* clock's range, where it has caught up and finds no note due.
KeepsPlaying ==
    /\ isPlaying
    /\ lastOp = "scheduler"
    /\ issued = <<>>
    /\ currentTime + TicksPerSecond \div 2 > MaxProgTime
====
